---- MODULE Spec2Model ----
(***************************************************************************)
(* Trusted-contacts subsystem of the safety-app backend                    *)
(* (src/app/routes/contacts.py) over its document store.                   *)
(*                                                                         *)
(* The store holds two collections, trusted_contacts and notifications,    *)
(* each a sequence of documents in insertion order.  Every request is an   *)
(* independent task that suspends at each store call, so a handler is a    *)
(* chain of steps, one per awaited store operation; the code between two   *)
(* awaits belongs to the step of the call it follows.                      *)
(*                                                                         *)
(* Strings are abstracted to small sets of tokens; every token of Names,   *)
(* Phones and Relationships stands for a string inside the validated       *)
(* length bounds.  Null stands for Python None.  An id string is an        *)
(* integer: a non-negative one is a well-formed 24-hex ObjectId string,    *)
(* MalformedId is a string ObjectId() rejects.                             *)
(***************************************************************************)
EXTENDS Integers, Sequences, FiniteSets, TLC

\* ------------------------------------------------------------------ bounds

\* Requests started in one behaviour.
MaxRequests == 2

\* Largest value the clock reaches.
MaxTime == 1

\* Requests address the first MaxTargets contacts the store was given.
MaxTargets == 2

\* ------------------------------------------------------- program constants

\* contacts.py:90  `if contact_count >= 5`
MaxContacts == 5

\* ------------------------------------------------------------ value domains

Procs == {"t1", "t2"}

Users == {"u1", "u2"}

\* Python None.
Null == "None"

\* Phones of the contacts stored before startup, in insertion order.
SeedPhones == <<"p1", "p2", "p3", "p4", "p5">>

\* What requests supply.  A Create names its contact n1/r1; an Update renames to
\* n2/r2 or nulls the field; a phone is one a stored contact may hold already
\* (p1) or a new one (p6, p7).
CreateNames == {"n1"}

CreateRelationships == {"r1"}

UpdateNames == {"n2", Null}

UpdateRelationships == {"r2", Null}

RequestPhones == {"p1", "p6", "p7"}

Messages == {"Emergency! I need help. Please check on me."}

Fields == {"name", "phone", "relationship"}

\* A string ObjectId() raises on.
MalformedId == -1

\* ObjectId(s) succeeds.
ObjectIdValid(s) == s >= 0

VARIABLES
    contacts,       \* db.trusted_contacts, in insertion order
    videos,         \* db.videos, in insertion order
    notifications,  \* db.notifications, in insertion order
    nextId,         \* the next ObjectId the store assigns
    now,            \* the last value datetime.utcnow() returned
    req,            \* per task: the request it runs, its locals, its response
    pre,            \* per task: the store as it was when its request arrived
    nreq            \* requests started so far

vars == <<contacts, videos, notifications, nextId, now, req, pre, nreq>>

\* --------------------------------------------------------------- documents

\* A trusted_contacts document (contacts.py:98-106 plus the store's _id).
Contact(oid, u, n, ph, r, v, c, m) ==
    [id |-> oid, user_id |-> u, name |-> n, phone |-> ph, relationship |-> r,
     is_verified |-> v, created_at |-> c, updated_at |-> m]

\* A notification that snapshots the phone into contact_name and the name into
\* contact_phone.
NotificationSwapped(cid, u, n, ph, msg, t) ==
    [contact_id |-> cid, user_id |-> u, contact_name |-> ph, contact_phone |-> n,
     message |-> msg, sent_at |-> t, status |-> "sent"]

\* A notifications document queued for delivery rather than recorded as sent.
NotificationQueued(cid, u, n, ph, msg, t) ==
    [contact_id |-> cid, user_id |-> u, contact_name |-> n, contact_phone |-> ph,
     message |-> msg, sent_at |-> t, status |-> "queued"]

\* A notifications document (contacts.py:193-204 and 233-244); the optional
\* location fields are copied from the request and read by nothing.
Notification(cid, u, n, ph, msg, t) ==
    [contact_id |-> cid, user_id |-> u, contact_name |-> n, contact_phone |-> ph,
     message |-> msg, sent_at |-> t, status |-> "sent"]

\* str(contact["_id"]) and ObjectId(contact_id): the id string of an ObjectId and
\* back.  Ids are kept in their string form throughout.
StrOfOid(oid) == oid

\* ------------------------------------------------------ store primitives

\* The elements of a sequence.
Range(s) == {s[i] : i \in 1..Len(s)}

\* The first element of a sequence as a Python optional: <<>> is None.
FirstOf(s) == IF s = <<>> THEN <<>> ELSE <<s[1]>>

\* The listing without its user filter.
FindAll(u) == contacts

\* db.trusted_contacts.find({"user_id": u}), in insertion order.
FindByUser(u) == SelectSeq(contacts, LAMBDA d : d.user_id = u)

\* db.trusted_contacts.count_documents({"user_id": u})
CountDocuments(u) == Len(FindByUser(u))

\* db.trusted_contacts.find_one({"_id": oid})
FindOneById(oid) == FirstOf(SelectSeq(contacts, LAMBDA d : d.id = oid))

\* The duplicate lookup of Create without its user scope.
FindOneByPhone(u, ph) == FirstOf(SelectSeq(contacts, LAMBDA d : d.phone = ph))

\* db.trusted_contacts.find_one({"user_id": u, "phone": ph})
FindOneByUserPhone(u, ph) ==
    FirstOf(SelectSeq(contacts, LAMBDA d : d.user_id = u /\ d.phone = ph))

\* The duplicate lookup of Update without its user scope.
FindOneByPhoneNotId(u, ph, oid) ==
    FirstOf(SelectSeq(contacts, LAMBDA d : d.phone = ph /\ d.id # oid))

\* db.trusted_contacts.find_one({"user_id": u, "phone": ph, "_id": {"$ne": oid}})
FindOneByUserPhoneNotId(u, ph, oid) ==
    FirstOf(SelectSeq(contacts,
                      LAMBDA d : d.user_id = u /\ d.phone = ph /\ d.id # oid))

\* {"$set": upd} applied to one document.
SetFields(d, upd) ==
    [f \in DOMAIN d |-> IF f \in DOMAIN upd THEN upd[f] ELSE d[f]]

\* update_one with upsert=True: when no document matches, one is inserted that
\* holds the id and the $set fields, the rest null.
UpdateOneUpsert(oid, upd) ==
    IF \E i \in 1..Len(contacts) : contacts[i].id = oid
    THEN [i \in 1..Len(contacts) |->
             IF contacts[i].id = oid THEN SetFields(contacts[i], upd)
             ELSE contacts[i]]
    ELSE Append(contacts,
                SetFields(Contact(oid, Null, Null, Null, Null, FALSE, 0, 0), upd))

\* db.trusted_contacts.update_one({"_id": oid}, {"$set": upd}): the collection
\* afterwards (unchanged when no document matches).
UpdateOne(oid, upd) ==
    [i \in 1..Len(contacts) |->
        IF contacts[i].id = oid THEN SetFields(contacts[i], upd) ELSE contacts[i]]

\* matched_count of that update_one.
MatchedCount(oid) == Len(SelectSeq(contacts, LAMBDA d : d.id = oid))

\* A delete keyed by the owner of the document rather than by its id: every
\* contact of that user goes with it.
DeleteOneWide(oid) ==
    SelectSeq(contacts,
              LAMBDA d : \A e \in Range(contacts) : e.id = oid => d.user_id # e.user_id)

\* db.trusted_contacts.delete_one({"_id": oid}): the collection afterwards.
DeleteOne(oid) == SelectSeq(contacts, LAMBDA d : d.id # oid)

\* A notification store that keeps one record per contact: a later alert to the
\* same contact overwrites the earlier record.
UpsertNotification(n) ==
    IF \E i \in 1..Len(notifications) : notifications[i].contact_id = n.contact_id
    THEN [i \in 1..Len(notifications) |->
             IF notifications[i].contact_id = n.contact_id THEN n
             ELSE notifications[i]]
    ELSE Append(notifications, n)

\* db.notifications.insert_one(n): the collection afterwards.
InsertNotification(n) == Append(notifications, n)

\* datetime.utcnow(): the clock has not moved since the last reading, or has
\* moved on.
ClockReadings == {t \in {now, now + 1} : t <= MaxTime}

\* ------------------------------------------------------------- responses

\* contact_helper(contact)
contact_helper(d) ==
    [id |-> StrOfOid(d.id), user_id |-> d.user_id, name |-> d.name,
     phone |-> d.phone, relationship |-> d.relationship,
     is_verified |-> d.is_verified, created_at |-> d.created_at,
     updated_at |-> d.updated_at]

\* response_model=TrustedContactResponse: name, phone and relationship are
\* required strings (TrustedContactBase); None fails the response validation.
ResponseValid(h) == h.name # Null /\ h.phone # Null /\ h.relationship # Null

\* ------------------------------------------------------------- requests

\* Request bodies TrustedContactCreate accepts.
CreateBodies ==
    [user_id : Users, name : CreateNames, phone : RequestPhones,
     relationship : CreateRelationships]

\* What TrustedContactUpdate accepts for one field: a string within the bounds,
\* or an explicit null (Optional[str]).
FieldValues(f) ==
    CASE f = "name" -> UpdateNames
      [] f = "phone" -> RequestPhones \cup {Null}
      [] f = "relationship" -> UpdateRelationships

\* contact_update.dict(exclude_unset=True): the supplied fields only.
UpdateBodies ==
    UNION {{b \in [S -> UpdateNames \cup RequestPhones \cup UpdateRelationships] :
               \A f \in S : b[f] \in FieldValues(f)} : S \in SUBSET Fields}

\* The update bodies that supply no field or one.
SingleFieldBodies == {b \in UpdateBodies : Cardinality(DOMAIN b) <= 1}

\* Id strings a client sends: the ids of the first contacts stored, one
\* well-formed id the store never assigned (0), and a malformed one.
IdInputs == {i \in 0..MaxTargets : i < nextId} \cup {MalformedId}

\* A task with no request.
Idle ==
    [op |-> "none", pc |-> "idle", id |-> 0, user_id |-> "", body |-> <<>>,
     message |-> "", cnt |-> 0, existing |-> <<>>, ts |-> 0, list |-> <<>>,
     sent |-> <<>>, code |-> 0, err |-> "", out |-> <<>>]

\* The handler returns or raises: the response of the request.
Respond(p, code, err, out) ==
    req' = [req EXCEPT ![p].pc = "done", ![p].code = code, ![p].err = err,
                       ![p].out = out]

\* A handler returns a contact through response_model=TrustedContactResponse.
RespondContact(p, code, h) ==
    IF ResponseValid(h) THEN Respond(p, code, "", h)
    ELSE Respond(p, 500, "ResponseValidation", <<>>)

\* What a task that has taken no request has seen of the store.
NothingSeen == [contacts |-> <<>>, notifications |-> <<>>, videos |-> <<>>]

\* Task p runs no handler: it has no request, or has answered its last one.
Free(p) == req[p].pc \in {"idle", "done"}

\* Task p can take a request.
Accepting(p) == Free(p) /\ nreq < MaxRequests

\* A request arrives at task p, which is accepting.
Arrive(p, r) ==
    /\ nreq' = nreq + 1
    /\ req' = [req EXCEPT ![p] = r]
    /\ pre' = [pre EXCEPT ![p] =
                  [contacts |-> contacts, notifications |-> notifications,
                   videos |-> videos]]
    /\ UNCHANGED <<videos, contacts, notifications, nextId, now>>

\* A request arrives with an id ObjectId() rejects: 400 before any store call.
ArriveMalformed(p, r) ==
    /\ nreq' = nreq + 1
    /\ req' = [req EXCEPT ![p] =
                  [r EXCEPT !.pc = "done", !.code = 400,
                            !.err = "InvalidIdentifier"]]
    /\ pre' = [pre EXCEPT ![p] =
                  [contacts |-> contacts, notifications |-> notifications,
                   videos |-> videos]]
    /\ UNCHANGED <<videos, contacts, notifications, nextId, now>>

\* ---------------------------------------------------------- create_contact

\* The limit test off by one.
LimitReachedAbove(contact_count) == contact_count > MaxContacts

\* contacts.py:90  `contact_count >= 5`
LimitReached(contact_count) == contact_count >= MaxContacts

StartCreate(p) ==
    /\ Accepting(p)
    /\ \E b \in CreateBodies :
        Arrive(p, [Idle EXCEPT !.op = "create", !.pc = "create_count", !.body = b])

\* contacts.py:89-91
CreateCount(p) ==
    /\ req[p].pc = "create_count"
    /\ LET contact_count == CountDocuments(req[p].body.user_id) IN
        IF LimitReached(contact_count)
        THEN req' = [req EXCEPT ![p].pc = "done", ![p].cnt = contact_count,
                                ![p].code = 400, ![p].err = "LimitExceeded"]
        ELSE req' = [req EXCEPT ![p].pc = "create_find", ![p].cnt = contact_count]
    /\ UNCHANGED <<videos, contacts, notifications, nextId, now, pre, nreq>>

\* contacts.py:93-97
CreateFind(p) ==
    /\ req[p].pc = "create_find"
    /\ LET existing == FindOneByUserPhone(req[p].body.user_id, req[p].body.phone) IN
        IF existing # <<>>
        THEN /\ req' = [req EXCEPT ![p].pc = "done", ![p].existing = existing,
                                   ![p].code = 400, ![p].err = "DuplicatePhone"]
             /\ now' = now
        ELSE \E t \in ClockReadings :
                /\ now' = t
                /\ req' = [req EXCEPT ![p].pc = "create_insert", ![p].ts = t]
    /\ UNCHANGED <<videos, contacts, notifications, nextId, pre, nreq>>

\* contacts.py:98-110
CreateInsert(p) ==
    /\ req[p].pc = "create_insert"
    /\ LET b == req[p].body
           contact_dict == Contact(nextId, b.user_id, b.name, b.phone,
                                   b.relationship, FALSE, req[p].ts, req[p].ts)
       IN /\ contacts' = Append(contacts, contact_dict)
          /\ nextId' = nextId + 1
          /\ RespondContact(p, 201, contact_helper(contact_dict))
    /\ UNCHANGED <<videos, notifications, now, pre, nreq>>

\* ---------------------------------------------------------- update_contact

\* The empty-payload test left out.
NoFieldsIgnored(update_dict) == FALSE

\* contacts.py:127  `if not update_dict`
NoFields(update_dict) == DOMAIN update_dict = {}

\* The duplicate check run for an unchanged phone instead of a changed one.
PhoneSame(update_dict, existing_contact) ==
    /\ "phone" \in DOMAIN update_dict
    /\ update_dict["phone"] = existing_contact.phone

\* contacts.py:130  `"phone" in update_dict and update_dict["phone"] != existing_contact["phone"]`
PhoneChanges(update_dict, existing_contact) ==
    /\ "phone" \in DOMAIN update_dict
    /\ update_dict["phone"] # existing_contact.phone

\* The $set document without the refreshed updated_at.
SetDocumentNoStamp(update_dict, t) == update_dict

\* A $set document that also withdraws the verification on every edit.
SetDocumentUnverify(update_dict, t) ==
    [f \in DOMAIN update_dict \cup {"updated_at", "is_verified"} |->
        IF f = "updated_at" THEN t
        ELSE IF f = "is_verified" THEN FALSE ELSE update_dict[f]]

\* contacts.py:139-141  the $set document: the supplied fields and updated_at.
SetDocument(update_dict, t) ==
    [f \in DOMAIN update_dict \cup {"updated_at"} |->
        IF f = "updated_at" THEN t ELSE update_dict[f]]

\* contacts.py:116-119
StartUpdate(p, bodies) ==
    /\ Accepting(p)
    /\ \E i \in IdInputs, b \in bodies :
        LET r == [Idle EXCEPT !.op = "update", !.pc = "update_find", !.id = i,
                              !.body = b]
        IN IF ObjectIdValid(i) THEN Arrive(p, r) ELSE ArriveMalformed(p, r)

\* contacts.py:121-130, and 139 when the duplicate check is skipped
UpdateFind(p) ==
    /\ req[p].pc = "update_find"
    /\ LET existing_contact == FindOneById(req[p].id)
           update_dict == req[p].body
       IN IF existing_contact = <<>>
          THEN /\ Respond(p, 404, "NotFound", <<>>)
               /\ now' = now
          ELSE IF NoFields(update_dict)
          THEN /\ req' = [req EXCEPT ![p].pc = "done",
                                     ![p].existing = existing_contact,
                                     ![p].code = 400, ![p].err = "NoOp"]
               /\ now' = now
          ELSE IF PhoneChanges(update_dict, existing_contact[1])
          THEN /\ req' = [req EXCEPT ![p].pc = "update_duplicate",
                                     ![p].existing = existing_contact]
               /\ now' = now
          ELSE \E t \in ClockReadings :
                  /\ now' = t
                  /\ req' = [req EXCEPT ![p].pc = "update_set",
                                        ![p].existing = existing_contact,
                                        ![p].ts = t]
    /\ UNCHANGED <<videos, contacts, notifications, nextId, pre, nreq>>

\* contacts.py:131-139
UpdateDuplicate(p) ==
    /\ req[p].pc = "update_duplicate"
    /\ LET duplicate == FindOneByUserPhoneNotId(req[p].existing[1].user_id,
                                                req[p].body["phone"], req[p].id)
       IN IF duplicate # <<>>
          THEN /\ Respond(p, 400, "DuplicatePhone", <<>>)
               /\ now' = now
          ELSE \E t \in ClockReadings :
                  /\ now' = t
                  /\ req' = [req EXCEPT ![p].pc = "update_set", ![p].ts = t]
    /\ UNCHANGED <<videos, contacts, notifications, nextId, pre, nreq>>

\* contacts.py:141
UpdateSet(p) ==
    /\ req[p].pc = "update_set"
    /\ contacts' = UpdateOne(req[p].id, SetDocument(req[p].body, req[p].ts))
    /\ req' = [req EXCEPT ![p].pc = "update_reread"]
    /\ UNCHANGED <<videos, notifications, nextId, now, pre, nreq>>

\* contacts.py:142-143; contact_helper(None) raises TypeError, which nothing maps.
UpdateReread(p) ==
    /\ req[p].pc = "update_reread"
    /\ LET updated_contact == FindOneById(req[p].id)
       IN IF updated_contact = <<>>
          THEN Respond(p, 500, "TypeError", <<>>)
          ELSE RespondContact(p, 200, contact_helper(updated_contact[1]))
    /\ UNCHANGED <<videos, contacts, notifications, nextId, now, pre, nreq>>

\* ---------------------------------------------------------- delete_contact

\* contacts.py:149-152
StartDelete(p) ==
    /\ Accepting(p)
    /\ \E i \in IdInputs :
        LET r == [Idle EXCEPT !.op = "delete", !.pc = "delete_one", !.id = i]
        IN IF ObjectIdValid(i) THEN Arrive(p, r) ELSE ArriveMalformed(p, r)

\* contacts.py:154-159
DeleteContact(p) ==
    /\ req[p].pc = "delete_one"
    /\ LET deleted_count == MatchedCount(req[p].id)
       IN /\ contacts' = DeleteOne(req[p].id)
          /\ IF deleted_count = 0
             THEN Respond(p, 404, "NotFound", <<>>)
             ELSE Respond(p, 204, "", <<>>)
    /\ UNCHANGED <<videos, notifications, nextId, now, pre, nreq>>

\* ---------------------------------------------------------- verify_contact

\* contacts.py:165-168
StartVerify(p) ==
    /\ Accepting(p)
    /\ \E i \in IdInputs :
        LET r == [Idle EXCEPT !.op = "verify", !.pc = "verify_set", !.id = i]
        IN IF ObjectIdValid(i) THEN Arrive(p, r) ELSE ArriveMalformed(p, r)

\* contacts.py:170-178
VerifyContact(p) ==
    /\ req[p].pc = "verify_set"
    /\ \E t \in ClockReadings :
          /\ now' = t
          /\ contacts' = UpdateOne(req[p].id,
                                   [is_verified |-> TRUE, updated_at |-> t])
          /\ req' = [req EXCEPT ![p].ts = t, ![p].pc = "done",
                        ![p].code = IF MatchedCount(req[p].id) = 0 THEN 404 ELSE 200,
                        ![p].err = IF MatchedCount(req[p].id) = 0
                                   THEN "NotFound" ELSE "",
                        ![p].out = IF MatchedCount(req[p].id) = 0
                                   THEN <<>> ELSE [verified |-> TRUE]]
    /\ UNCHANGED <<videos, notifications, nextId, pre, nreq>>

\* ------------------------------------------------------------- get_contact

\* contacts.py:76-79
StartGet(p) ==
    /\ Accepting(p)
    /\ \E i \in IdInputs :
        LET r == [Idle EXCEPT !.op = "get", !.pc = "get_find", !.id = i]
        IN IF ObjectIdValid(i) THEN Arrive(p, r) ELSE ArriveMalformed(p, r)

\* contacts.py:77-82
GetContact(p) ==
    /\ req[p].pc = "get_find"
    /\ LET contact == FindOneById(req[p].id)
       IN IF contact = <<>>
          THEN Respond(p, 404, "NotFound", <<>>)
          ELSE RespondContact(p, 200, contact_helper(contact[1]))
    /\ UNCHANGED <<videos, contacts, notifications, nextId, now, pre, nreq>>

\* ---------------------------------------------------------- notify_contact

\* contacts.py:184-187
StartNotify(p) ==
    /\ Accepting(p)
    /\ \E i \in IdInputs, m \in Messages :
        LET r == [Idle EXCEPT !.op = "notify", !.pc = "notify_find", !.id = i,
                              !.message = m]
        IN IF ObjectIdValid(i) THEN Arrive(p, r) ELSE ArriveMalformed(p, r)

\* contacts.py:189-204
NotifyFind(p) ==
    /\ req[p].pc = "notify_find"
    /\ LET contact == FindOneById(req[p].id)
       IN IF contact = <<>>
          THEN /\ Respond(p, 404, "NotFound", <<>>)
               /\ now' = now
          ELSE \E t \in ClockReadings :
                  /\ now' = t
                  /\ req' = [req EXCEPT ![p].pc = "notify_insert",
                                        ![p].existing = contact, ![p].ts = t]
    /\ UNCHANGED <<videos, contacts, notifications, nextId, pre, nreq>>

\* contacts.py:193-213
NotifyInsert(p) ==
    /\ req[p].pc = "notify_insert"
    /\ LET contact == req[p].existing[1]
           notification == Notification(req[p].id, contact.user_id, contact.name,
                                        contact.phone, req[p].message, req[p].ts)
       IN /\ notifications' = InsertNotification(notification)
          /\ Respond(p, 200, "",
                     [contact_name |-> contact.name, contact_phone |-> contact.phone,
                      sent_at |-> req[p].ts])
    /\ UNCHANGED <<videos, contacts, nextId, now, pre, nreq>>

\* ----------------------------------------------------- notify_all_contacts

StartNotifyAll(p) ==
    /\ Accepting(p)
    /\ \E u \in Users, m \in Messages :
        Arrive(p, [Idle EXCEPT !.op = "notify_all", !.pc = "notify_all_find",
                               !.user_id = u, !.message = m])

\* contacts.py:220-230
NotifyAllFind(p) ==
    /\ req[p].pc = "notify_all_find"
    /\ LET found == FindByUser(req[p].user_id)
       IN IF found = <<>>
          THEN Respond(p, 404, "NotFound", <<>>)
          ELSE req' = [req EXCEPT ![p].pc = "notify_all_insert", ![p].list = found]
    /\ UNCHANGED <<videos, contacts, notifications, nextId, now, pre, nreq>>

\* contacts.py:232-250: one turn of the loop, for the next listed contact; after
\* the last one, 252-256.
NotifyAllInsert(p) ==
    /\ req[p].pc = "notify_all_insert"
    /\ LET contact == req[p].list[Len(req[p].sent) + 1]
           notifications_sent ==
               Append(req[p].sent, [name |-> contact.name, phone |-> contact.phone])
       IN \E t \in ClockReadings :
             /\ now' = t
             /\ notifications' =
                   InsertNotification(
                       Notification(StrOfOid(contact.id), req[p].user_id,
                                    contact.name, contact.phone,
                                    req[p].message, t))
             /\ IF Len(notifications_sent) = Len(req[p].list)
                THEN req' = [req EXCEPT ![p].sent = notifications_sent,
                                        ![p].pc = "done", ![p].code = 200,
                                        ![p].out = [count |-> Len(notifications_sent),
                                                    contacts |-> notifications_sent]]
                ELSE req' = [req EXCEPT ![p].sent = notifications_sent]
    /\ UNCHANGED <<videos, contacts, nextId, pre, nreq>>

\* A failing insert inside a transaction: the records this call already
\* persisted are withdrawn with it.
NotifyAllInsertAborts(p) ==
    /\ req[p].pc = "notify_all_insert"
    /\ notifications' =
          SubSeq(notifications, 1, Len(notifications) - Len(req[p].sent))
    /\ Respond(p, 500, "StoreFailure", <<>>)
    /\ UNCHANGED <<videos, contacts, nextId, now, pre, nreq>>

\* contacts.py:246 raising: insert_one fails for the next listed contact.  Nothing
\* catches the exception, so the request ends in a 500; the records the earlier
\* turns of the loop inserted stay in the log.
NotifyAllInsertFails(p) ==
    /\ req[p].pc = "notify_all_insert"
    /\ Respond(p, 500, "StoreFailure", <<>>)
    /\ UNCHANGED <<videos, contacts, notifications, nextId, now, pre, nreq>>

\* ------------------------------------------------------------- videos.py

\* A videos document: its _id, its title (standing for the fields of
\* VideoCreate) and the two counters (videos.py:78-81).
Video(oid, title, views, likes) ==
    [id |-> oid, title |-> title, views |-> views, likes |-> likes]

\* db.videos.find_one({"_id": oid})
FindVideoById(oid) == FirstOf(SelectSeq(videos, LAMBDA v : v.id = oid))

\* An update that stores 1 in the counter instead of adding 1 to it.
SetOne(oid, counter) ==
    [i \in 1..Len(videos) |->
        IF videos[i].id = oid
        THEN [videos[i] EXCEPT ![counter] = 1]
        ELSE videos[i]]

\* db.videos.update_one({"_id": oid}, {"$inc": {counter: 1}}): the collection
\* afterwards.  The store applies the increment to the document in one step.
IncOne(oid, counter) ==
    [i \in 1..Len(videos) |->
        IF videos[i].id = oid
        THEN [videos[i] EXCEPT ![counter] = videos[i][counter] + 1]
        ELSE videos[i]]

\* modified_count of that update_one: an increment changes every document it
\* matches.
ModifiedCount(oid) == Len(SelectSeq(videos, LAMBDA v : v.id = oid))

\* db.videos.update_one({"_id": oid}, {"$set": update_data})
SetVideo(oid, update_data) ==
    [i \in 1..Len(videos) |->
        IF videos[i].id = oid
        THEN [f \in DOMAIN videos[i] |->
                 IF f \in DOMAIN update_data THEN update_data[f] ELSE videos[i][f]]
        ELSE videos[i]]

\* db.videos.delete_one({"_id": oid})
DeleteOneVideo(oid) == SelectSeq(videos, LAMBDA v : v.id # oid)

\* Titles a client sends.
Titles == {"v1", "v2"}

\* video_update.dict() without its None entries (videos.py:101): the title, or
\* nothing.
VideoUpdates == {<<>>} \cup {[title |-> t] : t \in {"v2"}}

\* A task takes a video request only if it has run none: its answer stays on
\* record.
Fresh(p) == req[p].pc = "idle" /\ nreq < MaxRequests

\* videos.py:125-126, 143-144, 98-99, 161-162: ObjectId.is_valid, else 400.
VideoArrive(p, r) ==
    IF ObjectIdValid(r.id) THEN Arrive(p, r) ELSE ArriveMalformed(p, r)

\* videos.py:120-126
StartView(p) ==
    /\ Fresh(p)
    /\ \E i \in IdInputs :
          VideoArrive(p, [Idle EXCEPT !.op = "view", !.pc = "view_inc", !.id = i])

\* videos.py:128-136
IncrementView(p) ==
    /\ req[p].pc = "view_inc"
    /\ LET modified_count == ModifiedCount(req[p].id)
       IN /\ videos' = IncOne(req[p].id, "views")
          /\ IF modified_count = 0
             THEN Respond(p, 404, "NotFound", <<>>)
             ELSE Respond(p, 200, "", [message |-> "View counted"])
    /\ UNCHANGED <<contacts, notifications, nextId, now, pre, nreq>>

\* videos.py:138-144
StartLike(p) ==
    /\ Fresh(p)
    /\ \E i \in IdInputs :
          VideoArrive(p, [Idle EXCEPT !.op = "like", !.pc = "like_inc", !.id = i])

\* videos.py:146-154
ToggleLike(p) ==
    /\ req[p].pc = "like_inc"
    /\ LET modified_count == ModifiedCount(req[p].id)
       IN /\ videos' = IncOne(req[p].id, "likes")
          /\ IF modified_count = 0
             THEN Respond(p, 404, "NotFound", <<>>)
             ELSE Respond(p, 200, "", [message |-> "Like toggled"])
    /\ UNCHANGED <<contacts, notifications, nextId, now, pre, nreq>>

\* videos.py:156-162
StartDeleteVideo(p) ==
    /\ Fresh(p)
    /\ \E i \in IdInputs :
          VideoArrive(p, [Idle EXCEPT !.op = "delete_video",
                                      !.pc = "video_delete", !.id = i])

\* videos.py:164-169
DeleteVideo(p) ==
    /\ req[p].pc = "video_delete"
    /\ LET deleted_count == ModifiedCount(req[p].id)
       IN /\ videos' = DeleteOneVideo(req[p].id)
          /\ IF deleted_count = 0
             THEN Respond(p, 404, "NotFound", <<>>)
             ELSE Respond(p, 200, "", [message |-> "Video deleted successfully"])
    /\ UNCHANGED <<contacts, notifications, nextId, now, pre, nreq>>

\* videos.py:93-101
StartUpdateVideo(p) ==
    /\ Fresh(p)
    /\ \E i \in IdInputs, b \in VideoUpdates :
          VideoArrive(p, [Idle EXCEPT !.op = "update_video",
                                      !.pc = "video_update_set", !.id = i,
                                      !.body = b])

\* videos.py:103-108: the $set, when update_data is not empty.
UpdateVideoSet(p) ==
    /\ req[p].pc = "video_update_set"
    /\ LET update_data == req[p].body
       IN videos' = IF update_data # <<>>
                    THEN SetVideo(req[p].id, update_data)
                    ELSE videos
    /\ req' = [req EXCEPT ![p].pc = "video_update_reread"]
    /\ UNCHANGED <<contacts, notifications, nextId, now, pre, nreq>>

\* videos.py:110-118
UpdateVideoReread(p) ==
    /\ req[p].pc = "video_update_reread"
    /\ LET updated_video == FindVideoById(req[p].id)
       IN IF updated_video = <<>>
          THEN Respond(p, 404, "NotFound", <<>>)
          ELSE Respond(p, 200, "", updated_video[1])
    /\ UNCHANGED <<contacts, videos, notifications, nextId, now, pre, nreq>>

\* videos.py:74-76
StartCreateVideo(p) ==
    /\ Fresh(p)
    /\ \E t \in Titles :
          Arrive(p, [Idle EXCEPT !.op = "create_video", !.pc = "video_insert",
                                 !.body = [title |-> t]])

\* videos.py:78-85: the new document starts with both counters at 0.
CreateVideoInsert(p) ==
    /\ req[p].pc = "video_insert"
    /\ videos' = Append(videos, Video(nextId, req[p].body.title, 0, 0))
    /\ nextId' = nextId + 1
    /\ req' = [req EXCEPT ![p].pc = "video_reread", ![p].id = nextId]
    /\ UNCHANGED <<contacts, notifications, now, pre, nreq>>

\* videos.py:86-91; created_video["_id"] on None raises TypeError, which nothing
\* maps.
CreateVideoReread(p) ==
    /\ req[p].pc = "video_reread"
    /\ LET created_video == FindVideoById(req[p].id)
       IN IF created_video = <<>>
          THEN Respond(p, 500, "TypeError", <<>>)
          ELSE Respond(p, 201, "", created_video[1])
    /\ UNCHANGED <<contacts, videos, notifications, nextId, now, pre, nreq>>

\* ---------------------------------------------------------- specification

\* The n-th contact a user stored before this process started.
SeedContact(u, n) ==
    Contact(n, u, "n1", SeedPhones[n], "r1", FALSE, 0, 0)

\* The database outlives the process (connect_to_mongo opens an existing one):
\* at startup user u1 already holds some number of contacts, from none to the
\* limit, stored by earlier Create requests.
Init ==
    \E k \in 0..MaxContacts :
        /\ contacts = [n \in 1..k |-> SeedContact("u1", n)]
        /\ notifications = <<>>
        /\ nextId = k + 1
        /\ now = 0
        /\ req = [p \in Procs |-> Idle]
        /\ pre = [p \in Procs |-> NothingSeen]
        /\ nreq = 0
        /\ videos = <<>>

\* A request arrives at task p; an Update's body is drawn from bodies.
Begin(p, bodies) ==
    \/ StartCreate(p)
    \/ StartUpdate(p, bodies)
    \/ StartDelete(p)
    \/ StartVerify(p)
    \/ StartGet(p)
    \/ StartNotify(p)
    \/ StartNotifyAll(p)

\* Task p's request makes its next store call.
Step(p) ==
    \/ CreateCount(p)
    \/ CreateFind(p)
    \/ CreateInsert(p)
    \/ UpdateFind(p)
    \/ UpdateDuplicate(p)
    \/ UpdateSet(p)
    \/ UpdateReread(p)
    \/ DeleteContact(p)
    \/ VerifyContact(p)
    \/ GetContact(p)
    \/ NotifyFind(p)
    \/ NotifyInsert(p)
    \/ NotifyAllFind(p)
    \/ NotifyAllInsert(p)

\* No request is in flight.
Quiet == \A q \in Procs : Free(q)

\* Requests are tasks of one event loop, interleaved at their store calls.  An
\* Update supplies at most one field here.
Next == \E p \in Procs : Begin(p, SingleFieldBodies) \/ Step(p)

Spec == Init /\ [][Next]_vars

\* Requests one after another, all run by one task: a request arrives only when
\* none is in flight.
NextSerial == (Quiet /\ Begin("t1", UpdateBodies)) \/ Step("t1")

SpecSerial == Init /\ [][NextSerial]_vars

\* Requests one after another, with a store that may fail an insert of NotifyAll.
NextFaulty == NextSerial \/ NotifyAllInsertFails("t1")

SpecFaulty == Init /\ [][NextFaulty]_vars

\* The n-th video stored before this process started, viewed and liked n - 1
\* times since its creation.
SeedVideo(n) == Video(n, "v1", n - 1, n - 1)

\* The store holds no contact and up to MaxTargets videos.
InitVideos ==
    \E k \in 0..MaxTargets :
        /\ videos = [n \in 1..k |-> SeedVideo(n)]
        /\ contacts = <<>>
        /\ notifications = <<>>
        /\ nextId = k + 1
        /\ now = 0
        /\ req = [p \in Procs |-> Idle]
        /\ pre = [p \in Procs |-> NothingSeen]
        /\ nreq = 0

\* The video requests, each its own task, interleaved at their store calls.
NextVideos ==
    \E p \in Procs :
        \/ StartView(p)
        \/ IncrementView(p)
        \/ StartLike(p)
        \/ ToggleLike(p)
        \/ StartDeleteVideo(p)
        \/ DeleteVideo(p)
        \/ StartUpdateVideo(p)
        \/ UpdateVideoSet(p)
        \/ UpdateVideoReread(p)
        \/ StartCreateVideo(p)
        \/ CreateVideoInsert(p)
        \/ CreateVideoReread(p)

SpecVideos == InitVideos /\ [][NextVideos]_vars

\* ------------------------------------------------------------ properties

\* Task p holds the response of its request.
Done(p) == req[p].pc = "done"

\* The contacts of user u in a collection c.
OfUser(c, u) == SelectSeq(c, LAMBDA d : d.user_id = u)

\* The contact a request of task p addresses, as stored when the request arrived.
Addressed(p) == SelectSeq(pre[p].contacts, LAMBDA d : d.id = req[p].id)

\* s is an initial part of t.
IsPrefix(s, t) == Len(s) <= Len(t) /\ SubSeq(t, 1, Len(s)) = s

\* C1: with requests run one after another, no user ever holds more than 5
\* contacts, and a Create that arrives when its user holds 5 answers 400
\* LimitExceeded and leaves the collection as it was.
C1_AtMostFivePerUser ==
    /\ \A u \in Users : CountDocuments(u) <= MaxContacts
    /\ \A p \in Procs :
          (/\ Done(p)
           /\ req[p].op = "create"
           /\ Len(OfUser(pre[p].contacts, req[p].body.user_id)) = MaxContacts)
          => /\ req[p].code = 400
             /\ req[p].err = "LimitExceeded"
             /\ contacts = pre[p].contacts

\* C1 witness: a Create with a phone its user does not hold arrived at 5
\* contacts and was refused.
C1_SixthCreateRefused ==
    \E p \in Procs :
        /\ Done(p)
        /\ req[p].op = "create"
        /\ req[p].err = "LimitExceeded"
        /\ CountDocuments(req[p].body.user_id) = MaxContacts
        /\ FindOneByUserPhone(req[p].body.user_id, req[p].body.phone) = <<>>

\* C2: with requests run one after another, no two stored contacts of one user
\* have the same phone.
C2_PhonesUniquePerUser ==
    \A i, j \in 1..Len(contacts) :
        (i # j /\ contacts[i].user_id = contacts[j].user_id)
        => contacts[i].phone # contacts[j].phone

\* C2 witness: an Update gave a new phone to a contact of a user who holds
\* several contacts.
C2_PhoneChangedAmongSeveral ==
    \E p \in Procs :
        /\ Done(p)
        /\ req[p].op = "update"
        /\ req[p].code = 200
        /\ "phone" \in DOMAIN req[p].body
        /\ Addressed(p) # <<>>
        /\ Addressed(p)[1].phone # req[p].body["phone"]
        /\ CountDocuments(Addressed(p)[1].user_id) >= 2

\* C3: under interleaving a Create is answered from what its own two checks
\* read and from nothing else: it returns 201 exactly when its count read fewer
\* than 5 and its duplicate lookup found nothing, whatever the collection holds
\* by the time it inserts; so an overflow is reported to no one.
C3_CreateAnsweredFromItsReads ==
    \A p \in Procs :
        (Done(p) /\ req[p].op = "create")
        => /\ req[p].code = 201 <=> (req[p].cnt < MaxContacts /\ req[p].existing = <<>>)
           /\ req[p].code \in {201, 400}

\* C3 witness: one user holds more than 5 contacts and both racing Creates for
\* that user returned 201.
C3_OverflowUnreported ==
    \E u \in Users :
        /\ CountDocuments(u) > MaxContacts
        /\ \A p \in Procs :
              /\ Done(p)
              /\ req[p].op = "create"
              /\ req[p].body.user_id = u
              /\ req[p].code = 201

\* The records a NotifyAll of task p owes: one per listed contact, in list order.
\* (sent_at is the clock reading of each loop turn and is left open.)
SnapshotOf(rec, contact, u) ==
    /\ rec.status = "sent"
    /\ rec.contact_name = contact.name
    /\ rec.contact_phone = contact.phone
    /\ rec.contact_id = contact.id
    /\ rec.user_id = u

\* C4, at the response: a NotifyAll whose listing returned N >= 1 contacts has
\* appended exactly N records to the log, the i-th a "sent" snapshot of the i-th
\* listed contact's name and phone.
C4_OneRecordPerListedContact ==
    \A p \in Procs :
        (Done(p) /\ req[p].op = "notify_all" /\ Len(req[p].list) >= 1)
        => LET listed == req[p].list
               before == Len(pre[p].notifications)
           IN /\ listed = OfUser(pre[p].contacts, req[p].user_id)
              /\ req[p].code = 200
              /\ Len(notifications) = before + Len(listed)
              /\ IsPrefix(pre[p].notifications, notifications)
              /\ \A i \in 1..Len(listed) :
                    SnapshotOf(notifications[before + i], listed[i], req[p].user_id)

\* C4, afterwards: a step of an Update or a Delete leaves the log as it is.
C4_UpdateDeleteKeepLog ==
    (\E p \in Procs : req[p].op \in {"update", "delete"} /\ req'[p] # req[p])
    => notifications' = notifications

\* C4: a NotifyAll over N >= 1 listed contacts appends exactly N "sent" records,
\* one per listed contact in list order, each a snapshot of the name and phone
\* the listing read; no later Update or Delete changes them.
C4_NotifyAllSnapshots ==
    /\ []C4_OneRecordPerListedContact
    /\ [][C4_UpdateDeleteKeepLog]_vars

\* C4 witness: after a NotifyAll wrote its records, an Update gave the notified
\* contact another name or phone, and the record still shows the old ones.
C4_RecordOutlivesUpdate ==
    \E p \in Procs :
        /\ Done(p)
        /\ req[p].op = "update"
        /\ req[p].code = 200
        /\ \E i \in 1..Len(notifications), j \in 1..Len(contacts) :
              /\ notifications[i].contact_id = req[p].id
              /\ contacts[j].id = req[p].id
              /\ \/ notifications[i].contact_name # contacts[j].name
                 \/ notifications[i].contact_phone # contacts[j].phone

\* C5: a NotifyAll for a user with no stored contact answers 404 and appends
\* nothing.
C5_NotifyAllNobody ==
    \A p \in Procs :
        (/\ Done(p)
         /\ req[p].op = "notify_all"
         /\ OfUser(pre[p].contacts, req[p].user_id) = <<>>)
        => /\ req[p].code = 404
           /\ req[p].err = "NotFound"
           /\ notifications = pre[p].notifications
           /\ contacts = pre[p].contacts

\* C5 witness: a NotifyAll for a user without contacts was answered 404 while
\* another user holds contacts.
C5_NobodyToNotify ==
    \E p \in Procs :
        /\ Done(p)
        /\ req[p].op = "notify_all"
        /\ req[p].code = 404
        /\ CountDocuments(req[p].user_id) = 0
        /\ contacts # <<>>

\* C6: every step leaves the notification log as it is or appends one record to
\* it, and a step that appends is an insert of NotifyOne or NotifyAll.
C6_Step ==
    /\ IsPrefix(notifications, notifications')
    /\ notifications' # notifications
       => /\ Len(notifications') = Len(notifications) + 1
          /\ \E p \in Procs :
                /\ req[p].pc \in {"notify_insert", "notify_all_insert"}
                /\ req'[p] # req[p]

\* C6: the notification log is append-only.
C6_LogAppendOnly == [][C6_Step]_vars

\* C6 witness: a contact with a record in the log has been deleted; the record
\* is still there.
C6_RecordOutlivesDelete ==
    \E p \in Procs :
        /\ Done(p)
        /\ req[p].op = "delete"
        /\ req[p].code = 204
        /\ FindOneById(req[p].id) = <<>>
        /\ \E i \in 1..Len(notifications) : notifications[i].contact_id = req[p].id

\* C7: an Update of a stored contact that supplies no field answers 400 (no
\* fields to update) and leaves both collections as they were.
C7_EmptyUpdateRejected ==
    \A p \in Procs :
        (/\ Done(p)
         /\ req[p].op = "update"
         /\ DOMAIN req[p].body = {}
         /\ Addressed(p) # <<>>)
        => /\ req[p].code = 400
           /\ req[p].err = "NoOp"
           /\ contacts = pre[p].contacts
           /\ notifications = pre[p].notifications

\* C7 witness: an empty Update of a stored contact was refused after the clock
\* had moved past the contact's updated_at.
C7_EmptyUpdateSeen ==
    \E p \in Procs :
        /\ Done(p)
        /\ req[p].op = "update"
        /\ DOMAIN req[p].body = {}
        /\ req[p].err = "NoOp"
        /\ Addressed(p) # <<>>
        /\ Addressed(p)[1].updated_at < now

\* What a stored contact looks like after an Update with these supplied fields
\* at clock reading t.
Updated(d, body, t) ==
    [id |-> d.id,
     user_id |-> d.user_id,
     name |-> IF "name" \in DOMAIN body THEN body["name"] ELSE d.name,
     phone |-> IF "phone" \in DOMAIN body THEN body["phone"] ELSE d.phone,
     relationship |-> IF "relationship" \in DOMAIN body
                      THEN body["relationship"] ELSE d.relationship,
     is_verified |-> d.is_verified,
     created_at |-> d.created_at,
     updated_at |-> t]

\* C8: after a successful Update the addressed contact has the supplied values
\* in the supplied fields and the request's clock reading in updated_at; its
\* other fields, every other contact and the log are as they were.
C8_UpdateFrame ==
    \A p \in Procs :
        (Done(p) /\ req[p].op = "update" /\ req[p].code = 200)
        => /\ Addressed(p) # <<>>
           /\ Len(contacts) = Len(pre[p].contacts)
           /\ \A i \in 1..Len(contacts) :
                 contacts[i] = IF pre[p].contacts[i].id = req[p].id
                               THEN Updated(pre[p].contacts[i], req[p].body, req[p].ts)
                               ELSE pre[p].contacts[i]
           /\ req[p].ts >= Addressed(p)[1].updated_at
           /\ notifications = pre[p].notifications
           /\ req[p].out = contact_helper(FindOneById(req[p].id)[1])

\* C8 witness: an Update that supplied one field only succeeded, with a later
\* updated_at than before, on a contact that is not the only one stored.
C8_PartialUpdateSeen ==
    \E p \in Procs :
        /\ Done(p)
        /\ req[p].op = "update"
        /\ req[p].code = 200
        /\ Cardinality(DOMAIN req[p].body) = 1
        /\ Len(contacts) >= 2
        /\ FindOneById(req[p].id)[1].updated_at > Addressed(p)[1].updated_at

\* Another contact of the same user held this phone when the request arrived.
HeldByAnother(p, ph) ==
    \E i \in 1..Len(pre[p].contacts) :
        /\ pre[p].contacts[i].id # req[p].id
        /\ pre[p].contacts[i].user_id = Addressed(p)[1].user_id
        /\ pre[p].contacts[i].phone = ph

\* C9: an Update of a stored contact that supplies a phone other than the
\* contact's own answers 400 (duplicate phone) exactly when another contact of
\* the same user holds that phone, and then changes nothing; an Update that
\* supplies the contact's own phone is never refused as a duplicate.
C9_DuplicateExactlyWhenHeld ==
    \A p \in Procs :
        (/\ Done(p)
         /\ req[p].op = "update"
         /\ Addressed(p) # <<>>
         /\ "phone" \in DOMAIN req[p].body)
        => IF req[p].body["phone"] # Addressed(p)[1].phone
           THEN /\ req[p].err = "DuplicatePhone"
                   <=> HeldByAnother(p, req[p].body["phone"])
                /\ req[p].err = "DuplicatePhone"
                   => /\ req[p].code = 400
                      /\ contacts = pre[p].contacts
                      /\ notifications = pre[p].notifications
           ELSE req[p].err # "DuplicatePhone"

\* C9 witness: an Update to a phone that only a contact of another user holds
\* went through.
C9_OtherUsersPhoneAccepted ==
    \E p \in Procs :
        /\ Done(p)
        /\ req[p].op = "update"
        /\ req[p].code = 200
        /\ Addressed(p) # <<>>
        /\ "phone" \in DOMAIN req[p].body
        /\ req[p].body["phone"] # Addressed(p)[1].phone
        /\ \E i \in 1..Len(contacts) :
              /\ contacts[i].user_id # Addressed(p)[1].user_id
              /\ contacts[i].phone = req[p].body["phone"]

\* C9 witness, the other side: an Update was refused as a duplicate.
C9_DuplicateRefused ==
    \E p \in Procs :
        /\ Done(p)
        /\ req[p].op = "update"
        /\ req[p].err = "DuplicatePhone"

\* C10 as claimed: an Update of a stored contact that supplies relationship
\* only is never refused as a duplicate and always succeeds (200).
C10_RelationshipOnlySucceeds ==
    \A p \in Procs :
        (/\ Done(p)
         /\ req[p].op = "update"
         /\ Addressed(p) # <<>>
         /\ DOMAIN req[p].body = {"relationship"})
        => /\ req[p].err # "DuplicatePhone"
           /\ req[p].code = 200

\* ------------------------------------------------------------------ C11

\* The operations that address one contact by its id.
ById == {"get", "update", "verify", "notify", "delete"}

\* The ids of the stored contacts.
StoredIds == {d.id : d \in Range(contacts)}

\* A request by id that arrived when no contact had that id was answered 404.
C11_AbsentIsNotFound ==
    \A p \in Procs :
        (/\ Done(p)
         /\ req[p].op \in ById
         /\ ObjectIdValid(req[p].id)
         /\ Addressed(p) = <<>>)
        => (req[p].code = 404 /\ req[p].err = "NotFound")

\* The store call of a Delete: 404 and nothing removed when no contact has the
\* id, else 204 and exactly that contact removed; the log is left alone.
C11_DeleteStep ==
    \A p \in Procs :
        (req[p].pc = "delete_one" /\ req'[p].pc = "done")
        => /\ notifications' = notifications
           /\ IF req[p].id \in StoredIds
              THEN /\ req'[p].code = 204
                   /\ Len(contacts') = Len(contacts) - 1
                   /\ Range(contacts') = {d \in Range(contacts) : d.id # req[p].id}
              ELSE /\ req'[p].code = 404
                   /\ req'[p].err = "NotFound"
                   /\ contacts' = contacts

\* An id the store assigned and no longer holds is never held again.
C11_NoReturn ==
    \A i \in 1..MaxContacts + MaxRequests :
        (i < nextId /\ i \notin StoredIds) => i \notin {d.id : d \in Range(contacts')}

\* C11: a Delete of a well-formed id no contact has answers 404; a Delete of a
\* stored contact removes exactly that contact and answers 204; every later
\* GetById, Update, Verify, NotifyOne or Delete of that id answers 404, and no
\* later step stores a contact under that id again.
C11_DeletedStaysDeleted ==
    /\ []C11_AbsentIsNotFound
    /\ [][C11_DeleteStep /\ C11_NoReturn]_vars

\* C11 witness: one task deleted a stored contact (204) and a Verify of the same
\* id that arrived afterwards was answered 404, the contact still being absent.
C11_DeletedThenNotFound ==
    \E p, q \in Procs :
        /\ p # q
        /\ Done(p) /\ req[p].op = "delete" /\ req[p].code = 204
        /\ Done(q) /\ req[q].op = "verify" /\ req[q].code = 404
        /\ req[q].id = req[p].id
        /\ Addressed(q) = <<>>
        /\ req[p].id \notin StoredIds
        /\ Len(contacts) >= 1

\* ------------------------------------------------------------------ C12

\* The store call of a Verify: 200 with the contact verified and its updated_at
\* refreshed when a contact has the id, else 404 and nothing changed.
C12_VerifyStep ==
    \A p \in Procs :
        (req[p].pc = "verify_set" /\ req'[p].pc = "done")
        => IF req[p].id \in StoredIds
           THEN /\ req'[p].code = 200
                /\ \A e \in Range(contacts') :
                      e.id = req[p].id
                      => (e.is_verified /\ e.updated_at = req'[p].ts)
           ELSE /\ req'[p].code = 404
                /\ req'[p].err = "NotFound"
                /\ contacts' = contacts

\* What one step may do to is_verified: a contact new to the store has it false;
\* a stored contact's flag changes only from false to true and only in the
\* store call of a Verify of that contact.
C12_FlagStep ==
    \A e \in Range(contacts') :
        LET before == {d \in Range(contacts) : d.id = e.id}
        IN IF before = {}
           THEN e.is_verified = FALSE
           ELSE \A d \in before :
                   /\ d.is_verified => e.is_verified
                   /\ e.is_verified # d.is_verified
                      => \E p \in Procs :
                            /\ req[p].pc = "verify_set"
                            /\ req[p].id = e.id
                            /\ req'[p].pc = "done"
                            /\ req'[p].code = 200

\* C12: a contact is created unverified; is_verified becomes true only by a
\* successful Verify of that contact, which also refreshes updated_at and
\* answers 404 when no contact has the id; no other operation changes the flag,
\* and a verified contact stays verified for as long as it is stored.
C12_VerifiedOnlyByVerify == [][C12_VerifyStep /\ C12_FlagStep]_vars

\* C12 witness: a contact was verified by one task and afterwards updated with
\* success by the other, and is still verified.
C12_VerifiedThenUpdated ==
    \E p, q \in Procs :
        /\ Done(p) /\ req[p].op = "verify" /\ req[p].code = 200
        /\ Done(q) /\ req[q].op = "update" /\ req[q].code = 200
        /\ req[q].id = req[p].id
        /\ Addressed(q) # <<>>
        /\ Addressed(q)[1].is_verified
        /\ \E d \in Range(contacts) : d.id = req[p].id /\ d.is_verified

\* ------------------------------------------------------------------ C13

\* C13: a NotifyOne of a well-formed id no contact has answers 404 and appends
\* nothing; a NotifyOne of a stored contact appends exactly one record, with
\* status "sent" and the contact's name, phone and user as fetched, answers
\* with that name and phone, and leaves the contacts as they were (the contact
\* is not marked verified).
C13_NotifyOneRecordsOnce ==
    \A p \in Procs :
        (Done(p) /\ req[p].op = "notify" /\ ObjectIdValid(req[p].id))
        => /\ contacts = pre[p].contacts
           /\ IF Addressed(p) = <<>>
              THEN /\ req[p].code = 404
                   /\ req[p].err = "NotFound"
                   /\ notifications = pre[p].notifications
              ELSE /\ req[p].code = 200
                   /\ Len(notifications) = Len(pre[p].notifications) + 1
                   /\ IsPrefix(pre[p].notifications, notifications)
                   /\ LET n == notifications[Len(notifications)]
                          c == Addressed(p)[1]
                      IN /\ n.status = "sent"
                         /\ n.contact_id = req[p].id
                         /\ n.contact_name = c.name
                         /\ n.contact_phone = c.phone
                         /\ n.user_id = c.user_id
                         /\ n.message = req[p].message
                         /\ req[p].out.contact_name = c.name
                         /\ req[p].out.contact_phone = c.phone

\* C13 witness: a NotifyOne of a stored, unverified contact answered 200 when the
\* log already held a record, and the contact is still unverified.
C13_NotifiedUnverified ==
    \E p \in Procs :
        /\ Done(p) /\ req[p].op = "notify" /\ req[p].code = 200
        /\ Len(pre[p].notifications) >= 1
        /\ \E d \in Range(contacts) : d.id = req[p].id /\ ~d.is_verified

\* ------------------------------------------------------------------ C14

\* C14: when the store fails while NotifyAll persists its k-th record, the call
\* ends in an error and the k-1 records it already persisted remain, appended to
\* the log in listing order and the contacts untouched; a NotifyAll that runs to
\* its end appends one record per listed contact whatever the log already
\* holds, so a retry records the earlier contacts again.
C14_NoRollback ==
    \A p \in Procs :
        (Done(p) /\ req[p].op = "notify_all" /\ req[p].list # <<>>)
        => /\ req[p].code \in {200, 500}
           /\ req[p].code = 500 <=> Len(req[p].sent) < Len(req[p].list)
           /\ req[p].code = 500 => req[p].err = "StoreFailure"
           /\ contacts = pre[p].contacts
           /\ IsPrefix(pre[p].notifications, notifications)
           /\ Len(notifications) = Len(pre[p].notifications) + Len(req[p].sent)
           /\ \A k \in 1..Len(req[p].sent) :
                 LET n == notifications[Len(pre[p].notifications) + k]
                 IN /\ n.contact_id = StrOfOid(req[p].list[k].id)
                    /\ n.user_id = req[p].user_id
                    /\ n.message = req[p].message

\* C14 witness: a NotifyAll over three or more contacts ran to its end on a log
\* that held the two records of an earlier, failed NotifyAll, and the log now
\* holds two records for one contact and one message.
C14_RetryDuplicates ==
    \E p \in Procs :
        /\ Done(p) /\ req[p].op = "notify_all" /\ req[p].code = 200
        /\ Len(req[p].list) >= 3
        /\ Len(pre[p].notifications) = 2
        /\ notifications[1].contact_id = notifications[3].contact_id
        /\ notifications[1].message = notifications[3].message
        /\ notifications[1].user_id = notifications[3].user_id

\* ------------------------------------------------------------------ C15

\* Some contact of user u other than the one with id oid holds phone ph now.
HeldNow(u, ph, oid) ==
    \E d \in Range(contacts) : d.user_id = u /\ d.phone = ph /\ d.id # oid

\* The duplicate lookup of a Create or an Update lets the request go on to its
\* write exactly when no other contact of the user holds the phone at the time
\* of the lookup, and refuses it as DuplicatePhone otherwise.
C15_LookupStep ==
    \A p \in Procs :
        /\ (req[p].pc = "create_find" /\ req'[p].pc # "create_find")
           => IF HeldNow(req[p].body.user_id, req[p].body.phone, MalformedId)
              THEN req'[p].pc = "done" /\ req'[p].err = "DuplicatePhone"
              ELSE req'[p].pc = "create_insert"
        /\ (req[p].pc = "update_duplicate" /\ req'[p].pc # "update_duplicate")
           => IF HeldNow(req[p].existing[1].user_id, req[p].body["phone"], req[p].id)
              THEN req'[p].pc = "done" /\ req'[p].err = "DuplicatePhone"
              ELSE req'[p].pc = "update_set"

\* The write of a Create or an Update looks at nothing: it stores the phone
\* whatever the collection holds by then.
C15_WriteStep ==
    \A p \in Procs :
        /\ (req[p].pc = "create_insert" /\ req'[p].pc # "create_insert")
           => /\ Len(contacts') = Len(contacts) + 1
              /\ contacts'[Len(contacts')].phone = req[p].body.phone
              /\ contacts'[Len(contacts')].user_id = req[p].body.user_id
        /\ (req[p].pc = "update_set" /\ req'[p].pc # "update_set")
           => \A e \in Range(contacts') :
                 (e.id = req[p].id /\ "phone" \in DOMAIN req[p].body)
                 => e.phone = req[p].body["phone"]

\* C15: the duplicate-phone checks of Create and Update are a lookup followed by
\* a separate write: the lookup judges the store as it is when it reads, and
\* the later write is unconditional, so two requests giving one phone to two
\* contacts of a user can both pass and both write.
C15_CheckThenWrite == [][C15_LookupStep /\ C15_WriteStep]_vars

\* C15 witness: both tasks succeeded, one of them an Update, each giving the same
\* phone to a different contact of one user, and both contacts are stored with
\* that phone.
C15_BothPassed ==
    \E p, q \in Procs, d, e \in Range(contacts) :
        /\ p # q
        /\ Done(p) /\ req[p].op = "update" /\ req[p].code = 200
        /\ Done(q) /\ req[q].op \in {"create", "update"} /\ req[q].code \in {200, 201}
        /\ d.id # e.id /\ d.user_id = e.user_id /\ d.phone = e.phone
        /\ d.phone # Null
        /\ "phone" \in DOMAIN req[p].body /\ req[p].body["phone"] = d.phone
        /\ "phone" \in DOMAIN req[q].body /\ req[q].body["phone"] = d.phone
        /\ req[p].id = d.id
        /\ req[q].out # <<>> /\ req[q].out.id = e.id

\* ------------------------------------------------------------------ C16

\* A contact of the user of task p's Create held the requested phone when the
\* request arrived.
PhoneHeldAtArrival(p) ==
    \E d \in Range(pre[p].contacts) :
        d.user_id = req[p].body.user_id /\ d.phone = req[p].body.phone

\* C16: Create tests the limit before the phone: with 5 contacts stored for the
\* user it answers LimitExceeded even when the phone is also a duplicate, and it
\* answers DuplicatePhone exactly when the user has fewer than 5 contacts and
\* one of them holds the requested phone.
C16_LimitBeforeDuplicate ==
    \A p \in Procs :
        (Done(p) /\ req[p].op = "create")
        => LET held == Len(OfUser(pre[p].contacts, req[p].body.user_id))
           IN /\ held >= MaxContacts
                 => (req[p].code = 400 /\ req[p].err = "LimitExceeded")
              /\ req[p].err = "DuplicatePhone"
                 <=> (held < MaxContacts /\ PhoneHeldAtArrival(p))
              /\ req[p].err = "DuplicatePhone" => req[p].code = 400

\* C16 witness: a Create for a user with 5 contacts, asking for a phone one of
\* them holds, was answered LimitExceeded.
C16_LimitWinsOverDuplicate ==
    \E p \in Procs :
        /\ Done(p) /\ req[p].op = "create"
        /\ Len(OfUser(pre[p].contacts, req[p].body.user_id)) = MaxContacts
        /\ PhoneHeldAtArrival(p)
        /\ req[p].err = "LimitExceeded"

\* ------------------------------------------------------------------ C17

\* C17: every stored contact has a name, a phone and a relationship that are
\* strings, never null, after any sequence of Creates and Updates the request
\* schemas accept, Updates that supply a field as an explicit null included.
C17_RequiredFieldsNeverNull ==
    \A d \in Range(contacts) :
        d.name # Null /\ d.phone # Null /\ d.relationship # Null

\* ------------------------------------------------------------------ C18

\* C18: with no store failure and under any interleaving, an Update of a
\* well-formed id ends in 200, 404 or 400, never in an unmapped server error
\* raised while building the response from a document that is no longer there.
\* (The responses that fail on a stored null, which C17 is about, are set
\* aside: what is left is the missing document.)
C18_UpdateEndsMapped ==
    \A p \in Procs :
        (/\ Done(p)
         /\ req[p].op = "update"
         /\ ObjectIdValid(req[p].id)
         /\ req[p].err # "ResponseValidation")
        => req[p].code \in {200, 404, 400}

\* ------------------------------------------------------------------ C19

\* The errors the handlers map to a 4xx answer.
MappedErrors ==
    {"InvalidIdentifier", "NotFound", "LimitExceeded", "DuplicatePhone", "NoOp"}

\* C19: a contact operation that ends in a mapped error (InvalidIdentifier,
\* NotFound, LimitExceeded, DuplicatePhone, NoOp) has written nothing: the
\* contacts and the log are exactly as they were when the request arrived.
C19_MappedErrorWritesNothing ==
    \A p \in Procs :
        (Done(p) /\ req[p].err \in MappedErrors)
        => /\ req[p].code \in {400, 404}
           /\ contacts = pre[p].contacts
           /\ notifications = pre[p].notifications

\* C19 witness: a Verify whose update matched no contact was answered 404 on a
\* store that holds contacts and a log that holds records.
C19_VerifyOfNobody ==
    \E p \in Procs :
        /\ Done(p) /\ req[p].op = "verify" /\ req[p].err = "NotFound"
        /\ contacts # <<>>
        /\ notifications # <<>>

\* ------------------------------------------------------------------ C20

\* The tasks whose request of kind op on video oid was answered 200.
Counted(op, oid) ==
    {p \in Procs : Done(p) /\ req[p].op = op /\ req[p].id = oid /\ req[p].code = 200}

\* The value of a counter of video oid when the request of task p arrived.
AtArrival(p, oid, counter) ==
    SelectSeq(pre[p].videos, LAMBDA v : v.id = oid)[1][counter]

\* The least of a non-empty set of numbers.
Least(S) == CHOOSE n \in S : \A m \in S : n <= m

\* All the requests on a stored video that were answered 200 are in its counter:
\* it stands as many above the value the first of them met as there are such
\* requests.
C20_NoLostUpdate ==
    \A v \in Range(videos) :
        /\ Counted("view", v.id) # {}
           => v.views = Least({AtArrival(p, v.id, "views") : p \in Counted("view", v.id)})
                        + Cardinality(Counted("view", v.id))
        /\ Counted("like", v.id) # {}
           => v.likes = Least({AtArrival(p, v.id, "likes") : p \in Counted("like", v.id)})
                        + Cardinality(Counted("like", v.id))

\* The store call of a view or like request: 200 when a video has the id, else
\* 404 and the collection as it was.
C20_RequestStep ==
    \A p \in Procs :
        (req[p].pc \in {"view_inc", "like_inc"} /\ req'[p].pc = "done")
        => IF \E v \in Range(videos) : v.id = req[p].id
           THEN req'[p].code = 200
           ELSE req'[p].code = 404 /\ req'[p].err = "NotFound" /\ videos' = videos

\* What one step does to the counters: a new video has both at 0; a stored
\* video's counter goes up by one in the store call of a view (resp. like)
\* request on it and is otherwise left as it is.
C20_CounterStep ==
    \A e \in Range(videos') :
        LET before == {v \in Range(videos) : v.id = e.id}
            Bump(pc) == IF \E p \in Procs : /\ req[p].pc = pc
                                            /\ req[p].id = e.id
                                            /\ req'[p].pc = "done"
                        THEN 1 ELSE 0
        IN IF before = {}
           THEN e.views = 0 /\ e.likes = 0
           ELSE \A v \in before :
                   /\ e.views = v.views + Bump("view_inc")
                   /\ e.likes = v.likes + Bump("like_inc")

====
